---- MODULE Spec2Model ----
(***************************************************************************)
(* Model of backend/app/services/bitfinex.py (BitfinexService) and of the  *)
(* /api/loans handler of backend/app/main.py.                              *)
(*                                                                         *)
(* The service runs on one asyncio event loop and none of its methods      *)
(* awaits while it touches the WebSocket state, so one call runs at a      *)
(* time: pc is the position of the running call, "idle" between calls.     *)
(* Every step of a call is one action; the peer (the exchange, the         *)
(* transport, the HTTP server) answers each step nondeterministically.     *)
(*                                                                         *)
(* The parts of the service that share no changing state are specified on  *)
(* their own: Spec (the streaming connection), SpecRest (close_loans),     *)
(* SpecRead (the read loop with its frames and records in full), SpecNonce *)
(* (the nonces) and SpecBook (get_funding_book).                           *)
(***************************************************************************)
EXTENDS Integers, Sequences, FiniteSets, TLC

\* ---------------------------------------------------------------- bounds
\* Connections a client may open in one behaviour.
MaxConns == 2
\* Longest loan_ids list handed to close_loans.
MaxIds == 2
\* Most entries in a funding book.
MaxBook == 3
\* Most calls of recv() followed in one read loop.
MaxAttempts == 11
\* Clock ticks to one millisecond, the last clock reading, and the nonces
\* one behaviour signs.
TicksPerMs == 4
MaxClock == 7
MaxSigns == 2

\* ------------------------------------------------------ program constants
\* get_active_loans: max_messages = 10
max_messages == 10
\* close_loans: Retry(total=3, ...)
retry_total == 3

\* close_loans: status_forcelist=[408, 429, 500, 502, 503, 504]
status_forcelist == {408, 429, 500, 502, 503, 504}

\* The ids a request may name, and the statuses the exchange answers with.
LoanIds == {5, 6}
HttpStatuses == {200, 201, 400, 429, 503}
Bodies == {"json", "text", "empty"}

\* None, for self.ws and for status_code.
None == 0

VARIABLES
    ws,             \* self.ws: None or the index in conns of the connection held
    is_connected,   \* self.is_connected
    conns,          \* every connection opened so far, in order of opening
    pc,             \* position of the running call
    call,           \* the running call and its arguments
    message_count,  \* get_active_loans: message_count
    loans,          \* get_active_loans: len(loans)
    cl,             \* close_loans: its locals (ids, position, results, retry state)
    last,           \* what the last finished call gave its caller
    now,            \* the wall clock, in ticks (TicksPerMs ticks to a millisecond)
    nonces,         \* the nonces signed so far, in order
    data,           \* get_active_loans: data, the frame received last
    loans_list,     \* get_active_loans: loans, the list itself
    decoded,        \* <<the object>> the record taken last was decoded to, <<>> if it raised
    only_hb,        \* the frames received before data were all heartbeats
    attempts,       \* the calls of self.ws.recv() the read loop has made
    result,         \* what the read loop's call returned
    response,       \* get_funding_book: the answer to its GET
    book            \* what get_funding_book returned

vars == <<ws, is_connected, conns, pc, call, message_count, loans, cl, last,
          now, nonces, data, loans_list, decoded, only_hb, attempts, result,
          response, book>>

\* The client's own state, and the state of the operations that leave it alone.
clientVars == <<ws, is_connected, conns, pc, call, message_count, loans, cl, last>>
nonceVars == <<now, nonces>>
readVars == <<data, loans_list, decoded, only_hb, attempts, result>>
bookVars == <<response, book>>
otherVars == <<nonceVars, readVars, bookVars>>

wsVars == <<ws, is_connected, conns>>

\* ------------------------------------------------------------ connections
\* A connection as the transport sees it, plus what happened on it:
\*   open  - not yet closed by either side
\*   auth  - the AuthAck received on it ("none" while none was)
\*   by    - the method that opened it
\*   flagged - self.is_connected when connect() opened it
\*   sent  - auth messages sent on it
\*   read  - recv() was called on it by the read loop of get_active_loans
NewConn(by, flagged) ==
    [open |-> TRUE, auth |-> "none", by |-> by, flagged |-> flagged,
     sent |-> 0, read |-> FALSE]

\* if self.ws: (a connection object is always truthy)
Holds == ws # None

\* The state get_active_loans reads from without connecting.
Ready == Holds /\ is_connected

\* The client holds no connection, or one that is closed and not flagged.
Disconnected == ~Holds \/ (~conns[ws].open /\ ~is_connected)

GalOps == {"get_active_loans", "get_loans"}

\* The call that just ended was get_active_loans(maintain_connection=True), it
\* connected, was answered "OK", read and returned, and its connection is open.
KeptAlive ==
    /\ last.op \in GalOps /\ last.maintain
    /\ last.outcome = "returned" /\ last.opened = 1
    /\ Holds /\ conns[ws].auth = "ok" /\ conns[ws].read /\ conns[ws].open

\* The running call: its method and argument, and what it has met so far.
\*   conns0, ready0, ws0, disc0 - len(conns), Ready, self.ws and Disconnected
\*             when the call started
\*   follows - the call started right after a KeptAlive one
\*   closedInRead - recv() raised "connection is closed" in the read loop
\*   connErr - a connection-level error (connect, send, handshake, read) was raised
\*   authFail - the auth response had a status other than "OK"
\*   waited - the frame the handshake received last was JSON and no auth event
NoCall == [op |-> "none", maintain |-> FALSE, conns0 |-> 0, ready0 |-> FALSE,
           ws0 |-> None, disc0 |-> FALSE, follows |-> FALSE,
           closedInRead |-> FALSE, connErr |-> FALSE, authFail |-> FALSE,
           frames |-> 0, waited |-> FALSE]

NewCall(op, maintain) ==
    [NoCall EXCEPT !.op = op, !.maintain = maintain, !.conns0 = Len(conns),
                   !.ready0 = Ready, !.ws0 = ws, !.disc0 = Disconnected,
                   !.follows = KeptAlive]

\* What the model notes about the requests made for the id whose result was
\* appended last (the result at position k; k = 0 before the first):
\*   posts - attempts of the POST
\*   post_status - status of the response to the last of them (None: no response)
\*   transient - one of them was answered with a status of the forcelist
\*   unreachable - the request that ended them met a connect error
NoNote == [k |-> 0, posts |-> 0, post_status |-> None, transient |-> FALSE,
           unreachable |-> FALSE]

\* close_loans: loan_ids, the position i of the for loop in it, results, and
\* the state of the request being sent:
\*   retries - what is left of Retry.total for the request
\*   posts   - attempts of the POST for the current id so far
\*   transient - one of them was answered with a status of the forcelist
NoCl == [ids |-> <<>>, i |-> 1, results |-> <<>>, retries |-> 0, posts |-> 0,
         transient |-> FALSE, note |-> NoNote]

NoLast == [op |-> "none", maintain |-> FALSE, outcome |-> "none",
           value |-> "", loans |-> 0,
           http |-> 0, results |-> <<>>, ids |-> <<>>, note |-> NoNote,
           opened |-> 0,
           ready0 |-> FALSE, ws0 |-> None, disc0 |-> FALSE, follows |-> FALSE,
           closes |-> FALSE, closedInRead |-> FALSE, connErr |-> FALSE,
           authFail |-> FALSE]

\* No frame received yet, and no call returned yet.
NoFrame == [kind |-> "none", n |-> 0, tag |-> "", recs |-> <<>>]
NoResult == [outcome |-> "none", value |-> <<>>]
NoResponse == [kind |-> "none", book_data |-> <<>>]

\* BitfinexService.__init__
Init ==
    /\ ws = None
    /\ is_connected = FALSE
    /\ conns = <<>>
    /\ pc = "idle"
    /\ call = NoCall
    /\ message_count = 0
    /\ loans = 0
    /\ cl = NoCl
    /\ last = NoLast
    /\ now = 0
    /\ nonces = <<>>
    /\ data = NoFrame
    /\ loans_list = <<>>
    /\ decoded = <<>>
    /\ only_hb = TRUE
    /\ attempts = 0
    /\ result = NoResult
    /\ response = NoResponse
    /\ book = NoResult

\* main.get_loans: the list as the response (200), any exception as
\* HTTPException(status_code=500).
get_loans_response(outcome) == IF outcome = "raised" THEN 500 ELSE 200

\* A call ends: what the caller gets (outcome "returned" with value, a list of
\* n positions or of results; or "raised"). cs is conns as the call leaves it.
Done(outcome, value, n, results, cs) ==
    /\ pc' = "idle"
    /\ call' = NoCall
    /\ message_count' = 0
    /\ loans' = 0
    /\ last' = [op |-> call.op, maintain |-> call.maintain, outcome |-> outcome,
                value |-> value, loans |-> n,
                http |-> IF call.op = "get_loans"
                         THEN get_loans_response(outcome) ELSE 0,
                results |-> results, ids |-> cl.ids, note |-> cl.note,
                opened |-> Len(cs) - call.conns0,
                ready0 |-> call.ready0, ws0 |-> call.ws0,
                disc0 |-> call.disc0, follows |-> call.follows,
                closes |-> (pc \in {"gal_finish", "gal_except"}
                            /\ ~call.maintain),
                closedInRead |-> call.closedInRead,
                connErr |-> call.connErr, authFail |-> call.authFail]

\* ------------------------------------------------------------- the peer
\* ws.close(): it closes the connection, or raises.
CloseOutcomes == {"ok", "error"}

\* connect(WS_URI) then ws.send(auth_message):
\*   "ok" - both succeed; "refused" - connect raises; "send_failed" - send raises
ConnectOutcomes == {"ok", "refused", "send_failed"}

\* What "for message in self.ws" meets while waiting for the auth response:
\*   "array"       - a JSON array (heartbeat or channel data)
\*   "event_other" - a JSON object whose event is not "auth" (info, conf, ...)
\*   "no_event"    - a JSON object with no "event" key
\*   "not_json"    - a frame json.loads rejects
\*   "auth_ok" / "auth_fail" - {"event": "auth", "status": "OK" / other}
\*   "closed_ok"   - the peer closes normally: the iteration ends
\*   "closed_err"  - the connection is lost: the iteration raises
HandshakeEvents == {"array", "event_other", "no_event", "not_json", "auth_ok",
                    "auth_fail", "closed_ok", "closed_err"}

\* What self.ws.recv() gives the read loop:
\*   "hb"         - [chan, "hb"]
\*   "other"      - a frame no borrower record is decoded from
\*   "snapshot"   - an "fcs"/"fls" snapshot with borrower-side records
\*   "not_json"   - a frame json.loads rejects
\*   "recv_error" - recv raises, the text lacks "connection is closed"
\*   "recv_closed"- recv raises, the text has "connection is closed"
RecvEvents == {"hb", "other", "snapshot", "not_json", "recv_error", "recv_closed"}

\* Borrower-side records one snapshot may hold.
MaxRecs == 2

\* ------------------------------------------------------------- close()
\* close(): self.is_connected after "if self.ws: try: self.ws.close();
\* self.is_connected = False; except: log".
close_flag(o) == IF Holds /\ o = "ok" THEN FALSE ELSE is_connected

\* close(): the connections after self.ws.close().
close_conns(o) ==
    IF Holds /\ o = "ok" THEN [conns EXCEPT ![ws].open = FALSE] ELSE conns

\* Variant of close_outcome: no try around self.ws.close().
close_outcome_uncaught(o) == IF Holds /\ o = "error" THEN "raised" ELSE "returned"

\* close(): "except Exception as e: logger.error(...)": nothing is raised.
close_outcome(o) == "returned"

\* close(), called by a user of the service.
Close ==
    /\ pc = "idle"
    /\ \E o \in CloseOutcomes :
        /\ is_connected' = close_flag(o)
        /\ conns' = close_conns(o)
        /\ call' = NoCall
        /\ pc' = "idle"
        /\ last' = [NoLast EXCEPT !.op = "close", !.outcome = close_outcome(o),
                                  !.value = "None",
                                  !.closes = TRUE, !.disc0 = Disconnected,
                                  !.ready0 = Ready, !.ws0 = ws]
    /\ UNCHANGED <<ws, message_count, loans, cl>>
    /\ UNCHANGED otherVars

\* cleanup(): "if self.ws: self.ws.close()", outside any try; self.session and
\* self.connector are None (nothing assigns them but _init_session).
cleanup ==
    /\ pc = "idle"
    /\ \E o \in CloseOutcomes :
        /\ conns' = close_conns(o)
        /\ call' = NoCall
        /\ pc' = "idle"
        /\ last' = [NoLast EXCEPT !.op = "cleanup",
                                  !.outcome = IF Holds /\ o = "error"
                                              THEN "raised" ELSE "returned",
                                  !.ready0 = Ready, !.ws0 = ws]
    /\ UNCHANGED <<ws, is_connected, message_count, loans, cl>>
    /\ UNCHANGED otherVars

\* json.loads(message) gives a list, or a dict that is not an auth event
\* (its "event" is another one, or it has none).
other_json(ev) == ev \in {"array", "event_other", "no_event"}

\* ------------------------------------------- connect_and_authenticate()
\* Variant of handshake: any auth event ends the wait, its status unread.
handshake_no_status_check(ev) ==
    CASE ev \in {"array", "event_other"} -> "skip"
      [] ev \in {"auth_ok", "auth_fail"} -> "true"
      [] ev = "closed_ok" -> "none"
      [] OTHER -> "raise"

\* What the body of the "for message in self.ws" loop does with one event.
handshake(ev) ==
    CASE ev \in {"array", "event_other"} -> "skip"
      [] ev = "auth_ok" -> "true"
      [] ev = "closed_ok" -> "none"
      [] OTHER -> "raise"

\* The connection after the event.
after_handshake(c, ev) ==
    CASE ev = "auth_ok" -> [c EXCEPT !.auth = "ok"]
      [] ev = "auth_fail" -> [c EXCEPT !.auth = "fail"]
      [] ev \in {"closed_ok", "closed_err"} -> [c EXCEPT !.open = FALSE]
      [] OTHER -> c

\* Where an exception of connect_and_authenticate goes: its own handler logs
\* and re-raises; inside get_active_loans the outer handler is next.
CaRaiseTo ==
    IF call.op = "connect_and_authenticate" THEN "ca_except" ELSE "gal_except"

\* connect_and_authenticate(), called by a user of the service.
CaStart ==
    /\ pc = "idle"
    /\ call' = NewCall("connect_and_authenticate", FALSE)
    /\ pc' = "ca_connect"
    /\ last' = NoLast
    /\ UNCHANGED <<wsVars, message_count, loans, cl>>
    /\ UNCHANGED otherVars

\* self.ws = connect(self.WS_URI); self.ws.send(self._build_auth_message())
CaConnect ==
    /\ pc = "ca_connect"
    /\ \E o \in ConnectOutcomes :
        \/ /\ o = "refused"
           /\ call' = [call EXCEPT !.connErr = TRUE]
           /\ pc' = CaRaiseTo
           /\ UNCHANGED wsVars
        \/ /\ o = "send_failed"
           /\ Len(conns) < MaxConns
           /\ conns' = Append(conns, NewConn("connect", is_connected))
           /\ ws' = Len(conns')
           /\ call' = [call EXCEPT !.connErr = TRUE]
           /\ pc' = CaRaiseTo
           /\ UNCHANGED is_connected
        \/ /\ o = "ok"
           /\ Len(conns) < MaxConns
           /\ conns' = Append(conns, [NewConn("connect", is_connected)
                                        EXCEPT !.sent = 1])
           /\ ws' = Len(conns')
           /\ pc' = "ca_auth"
           /\ UNCHANGED <<is_connected, call>>
    /\ UNCHANGED <<message_count, loans, cl, last>>
    /\ UNCHANGED otherVars

\* What connect_and_authenticate does when the handshake ends with "true":
\* it returns True; self.is_connected is not assigned.
ca_flag == is_connected

\* for message in self.ws: ... (one event)
CaAuth ==
    /\ pc = "ca_auth"
    /\ \E ev \in HandshakeEvents :
        /\ conns' = [conns EXCEPT ![ws] = after_handshake(@, ev)]
        /\ LET r == handshake(ev) IN
            \/ /\ r = "skip"
               /\ call' = [call EXCEPT !.waited = other_json(ev)]
               /\ UNCHANGED <<pc, last, is_connected, message_count, loans>>
            \/ /\ r = "raise"
               /\ call' = [call EXCEPT !.connErr = TRUE,
                                       !.authFail = (ev = "auth_fail"),
                                       !.waited = other_json(ev)]
               /\ pc' = CaRaiseTo
               /\ UNCHANGED <<last, is_connected, message_count, loans>>
            \/ /\ r = "true"
               /\ is_connected' = ca_flag
               /\ IF call.op = "connect_and_authenticate"
                  THEN Done("returned", "True", 0, <<>>, conns')
                  ELSE /\ pc' = "gal_read"
                       /\ call' = [call EXCEPT !.waited = FALSE]
                       /\ UNCHANGED <<last, message_count, loans>>
            \/ /\ r = "none"
               \* the loop ends and the method returns None;
               \* get_active_loans: "if not ...: return []"
               /\ Done("returned",
                       IF call.op = "connect_and_authenticate"
                       THEN "None" ELSE "list", 0, <<>>, conns')
               /\ UNCHANGED is_connected
    /\ UNCHANGED <<ws, cl>>
    /\ UNCHANGED otherVars

\* except Exception as e: logger.error(...); raise
CaExcept ==
    /\ pc = "ca_except"
    /\ Done("raised", "", 0, <<>>, conns)
    /\ UNCHANGED <<wsVars, cl>>
    /\ UNCHANGED otherVars

\* ---------------------------------------------------------- reconnect()
\* reconnect(): "if self.ws: try: self.ws.close() except: pass;
\* self.ws = None; self.is_connected = False"
RcStart ==
    /\ pc = "idle"
    /\ call' = NewCall("reconnect", FALSE)
    /\ \E o \in CloseOutcomes :
        /\ conns' = close_conns(o)
        /\ ws' = None
        /\ is_connected' = IF Holds THEN FALSE ELSE is_connected
    /\ pc' = "rc_connect"
    /\ last' = NoLast
    /\ UNCHANGED <<message_count, loans, cl>>
    /\ UNCHANGED otherVars

\* self.ws = connect(self.WS_URI); self.ws.send(self._build_auth_message())
RcConnect ==
    /\ pc = "rc_connect"
    /\ \E o \in ConnectOutcomes :
        \/ /\ o = "refused"
           /\ call' = [call EXCEPT !.connErr = TRUE]
           /\ pc' = "rc_except"
           /\ UNCHANGED wsVars
        \/ /\ o = "send_failed"
           /\ Len(conns) < MaxConns
           /\ conns' = Append(conns, NewConn("reconnect", is_connected))
           /\ ws' = Len(conns')
           /\ call' = [call EXCEPT !.connErr = TRUE]
           /\ pc' = "rc_except"
           /\ UNCHANGED is_connected
        \/ /\ o = "ok"
           /\ Len(conns) < MaxConns
           /\ conns' = Append(conns, [NewConn("reconnect", is_connected)
                                        EXCEPT !.sent = 1])
           /\ ws' = Len(conns')
           /\ pc' = "rc_auth"
           /\ UNCHANGED <<is_connected, call>>
    /\ UNCHANGED <<message_count, loans, cl, last>>
    /\ UNCHANGED otherVars

\* for message in self.ws: ... (one event); on "OK" self.is_connected = True
RcAuth ==
    /\ pc = "rc_auth"
    /\ \E ev \in HandshakeEvents :
        /\ conns' = [conns EXCEPT ![ws] = after_handshake(@, ev)]
        /\ LET r == handshake(ev) IN
            \/ /\ r = "skip"
               /\ call' = [call EXCEPT !.waited = other_json(ev)]
               /\ UNCHANGED <<pc, last, is_connected, message_count, loans>>
            \/ /\ r = "raise"
               /\ call' = [call EXCEPT !.connErr = TRUE,
                                       !.authFail = (ev = "auth_fail"),
                                       !.waited = other_json(ev)]
               /\ pc' = "rc_except"
               /\ UNCHANGED <<last, is_connected, message_count, loans>>
            \/ /\ r = "true"
               /\ is_connected' = TRUE
               /\ Done("returned", "True", 0, <<>>, conns')
            \/ /\ r = "none"
               \* the loop ends and the method returns None
               /\ Done("returned", "None", 0, <<>>, conns')
               /\ UNCHANGED is_connected
    /\ UNCHANGED <<ws, cl>>
    /\ UNCHANGED otherVars

\* except Exception: self.ws = None; self.is_connected = False; raise
RcExcept ==
    /\ pc = "rc_except"
    /\ ws' = None
    /\ is_connected' = FALSE
    /\ Done("raised", "", 0, <<>>, conns)
    /\ UNCHANGED <<conns, cl>>
    /\ UNCHANGED otherVars

\* ---------------------------------------------------- get_active_loans()
\* get_active_loans(maintain_connection), called directly ("get_active_loans")
\* or by main.get_loans ("get_loans", which passes maintain_connection=True):
\* "if not self.ws or not self.is_connected: connect_and_authenticate()"
GalStart ==
    /\ pc = "idle"
    /\ \E op \in {"get_active_loans", "get_loans"}, maintain \in BOOLEAN :
        /\ op = "get_loans" => maintain
        /\ call' = NewCall(op, maintain)
    /\ pc' = IF ~Holds \/ ~is_connected THEN "ca_connect" ELSE "gal_read"
    /\ last' = NoLast
    /\ UNCHANGED <<wsVars, message_count, loans, cl>>
    /\ UNCHANGED otherVars

\* (As if the loop had no 'if loans: break' and ended on the budget alone.)
loop_exits_on_budget(n, count) == count >= max_messages

\* The read loop leaves "while message_count < max_messages" when it has
\* loans ("if loans: break") or has used its messages.
loop_exits(n, count) == n > 0 \/ count >= max_messages

\* (As if the loop did not count the frames it skips.)
count_after_skipped(ev, count) ==
    IF ev \in {"recv_error", "recv_closed", "hb", "other"} THEN count ELSE count + 1

\* message_count after one pass of the loop: "message_count += 1" follows
\* self.ws.recv(), so a recv that raises leaves it as it is.
count_after(ev, count) ==
    IF ev \in {"recv_error", "recv_closed"} THEN count ELSE count + 1

\* A frame was received: recv() returned a message (call.frames counts them).
received(ev) == ev \notin {"recv_error", "recv_closed"}

\* One pass of the read loop.
GalRead ==
    /\ pc = "gal_read"
    /\ \E ev \in RecvEvents, n \in 1..MaxRecs :
        \* a frame arrives on an open connection only
        /\ conns[ws].open \/ ev \in {"recv_error", "recv_closed"}
        /\ (ev # "snapshot") => n = 1
        /\ conns' = [conns EXCEPT ![ws].read = TRUE,
                                  ![ws].open = @ /\ ev # "recv_closed"]
        /\ message_count' = count_after(ev, message_count)
        /\ loans' = IF ev = "snapshot" THEN n ELSE loans
        /\ IF ev = "recv_closed"
           THEN \* if "connection is closed" in str(e): raise
                /\ call' = [call EXCEPT !.connErr = TRUE, !.closedInRead = TRUE]
                /\ pc' = "gal_except"
           ELSE /\ pc' = IF loop_exits(loans', message_count')
                         THEN "gal_finish" ELSE "gal_read"
                /\ call' = [call EXCEPT !.frames = IF received(ev) THEN @ + 1 ELSE @]
    /\ UNCHANGED <<ws, is_connected, cl, last>>
    /\ UNCHANGED otherVars

\* After the loop: "if not maintain_connection: self.close()"; return loans
GalFinish ==
    /\ pc = "gal_finish"
    /\ \E o \in CloseOutcomes :
        /\ call.maintain => o = "ok"
        /\ is_connected' = IF call.maintain THEN is_connected ELSE close_flag(o)
        /\ conns' = IF call.maintain THEN conns ELSE close_conns(o)
    /\ Done("returned", "list", loans, <<>>, conns')
    /\ UNCHANGED <<ws, cl>>
    /\ UNCHANGED otherVars

\* except Exception: "if not maintain_connection: self.close()"; raise
GalExcept ==
    /\ pc = "gal_except"
    /\ \E o \in CloseOutcomes :
        /\ call.maintain => o = "ok"
        /\ is_connected' = IF call.maintain THEN is_connected ELSE close_flag(o)
        /\ conns' = IF call.maintain THEN conns ELSE close_conns(o)
    /\ Done("raised", "", 0, <<>>, conns')
    /\ UNCHANGED <<ws, cl>>
    /\ UNCHANGED otherVars

\* ---------------------------------------------------------- close_loans()
\* What one attempt of a request meets: a response (with a status), or an
\* error before any response: "connect_error" (DNS/TCP/TLS: the host is not
\* reached), "broken" (the connection breaks once the request is sent),
\* "read_timeout" (no response within the adapter's timeout of 10 s).
Answers == {"response", "connect_error", "broken", "read_timeout"}

\* urllib3's Retry with no allowed_methods argument retries on a status or a
\* read error only the idempotent methods; close_loans passes total,
\* backoff_factor and status_forcelist, and no allowed_methods.
allowed_methods == {"DELETE", "GET", "HEAD", "OPTIONS", "PUT", "TRACE"}

\* Retry.is_retry(method, status_code) under retry_strategy.
is_retry(method, status) ==
    method \in allowed_methods /\ status \in status_forcelist

\* One attempt of session.get / session.post through the mounted adapter, with
\* `retries` of Retry.total left: "response" (the response is returned),
\* "retry" (the request is sent again), or the exception requests raises.
attempt(method, ans, status, retries) ==
    CASE ans = "response" ->
            IF is_retry(method, status)
            THEN IF retries > 0 THEN "retry" ELSE "RetryError"
            ELSE "response"
      [] ans = "connect_error" ->
            IF retries > 0 THEN "retry" ELSE "ConnectionError"
      [] ans = "broken" ->
            IF method \in allowed_methods /\ retries > 0
            THEN "retry" ELSE "ConnectionError"
      [] ans = "read_timeout" ->
            IF method \in allowed_methods /\ retries > 0
            THEN "retry" ELSE "ReadTimeout"

\* Variant of success_of: success = response.ok
success_if_ok(status) == status < 400

\* success = response.status_code == 200
success_of(status) == status = 200

\* message: json.dumps(response.json()), or on JSONDecodeError
\* "response.text if response.text else 'No response text'"
message_of(body) == IF body = "empty" THEN "No response text" ELSE body

\* The result appended after a response.
response_result(id, status, body) ==
    [loan_id |-> id, success |-> success_of(status), message |-> message_of(body),
     status_code |-> status]

\* The result the three except clauses append: the same but for the message.
error_result(id, exc) ==
    [loan_id |-> id, success |-> FALSE,
     message |-> CASE exc = "ConnectionError" -> "Connection error"
                   [] exc \in {"ReadTimeout", "RetryError"} -> "Request error"
                   [] OTHER -> "Error closing loan",
     status_code |-> None]

\* Variant of handler_appends: the except clause logs and appends nothing.
handler_drops(results, r) == results

\* except ...: results.append({...}): the loop goes on with the next id.
handler_appends(results, r) == Append(results, r)

IdLists == UNION {[1..n -> LoanIds] : n \in 0..MaxIds}

\* close_loans(loan_ids): the session and its adapter are set up, results = []
ClStart ==
    /\ pc = "idle"
    /\ \E ids \in IdLists :
        /\ cl' = [NoCl EXCEPT !.ids = ids, !.retries = retry_total]
        /\ pc' = IF ids = <<>> THEN "cl_finish" ELSE "cl_get"
    /\ call' = NewCall("close_loans", FALSE)
    /\ last' = NoLast
    /\ UNCHANGED <<wsVars, message_count, loans>>
    /\ UNCHANGED otherVars

\* The for loop after the id at cl.i is done.
ClNext(results, posts, post_status, transient, unreachable) ==
    /\ cl' = [cl EXCEPT !.results = results, !.i = @ + 1,
                        !.retries = retry_total, !.posts = 0,
                        !.transient = FALSE,
                        !.note = [k |-> Len(results), posts |-> posts,
                                  post_status |-> post_status,
                                  transient |-> transient,
                                  unreachable |-> unreachable]]
    /\ pc' = IF cl.i + 1 > Len(cl.ids) THEN "cl_finish" ELSE "cl_get"

\* "Test connection first": session.get(".../platform/status"), one attempt;
\* any RequestException becomes ConnectionError(...), caught by
\* "except Exception"
ClGet ==
    /\ pc = "cl_get"
    /\ \E ans \in Answers, status \in HttpStatuses :
        LET r == attempt("GET", ans, status, cl.retries) IN
        /\ (ans # "response") => status = 200
        /\ \/ /\ r = "retry"
              /\ cl' = [cl EXCEPT !.retries = @ - 1]
              /\ UNCHANGED pc
           \/ /\ r = "response"
              /\ cl' = [cl EXCEPT !.retries = retry_total]
              /\ pc' = "cl_post"
           \/ /\ r \notin {"retry", "response"}
              /\ ClNext(handler_appends(cl.results,
                            error_result(cl.ids[cl.i], "builtin ConnectionError")),
                        0, None, FALSE, ans = "connect_error")
    /\ UNCHANGED <<wsVars, call, message_count, loans, last>>
    /\ UNCHANGED otherVars

\* session.post(url, json=payload, headers=headers), one attempt, and the
\* result appended when it ends
ClPost ==
    /\ pc = "cl_post"
    /\ \E ans \in Answers, status \in HttpStatuses, body \in Bodies :
        LET r == attempt("POST", ans, status, cl.retries)
            tr == cl.transient \/ (ans = "response" /\ status \in status_forcelist)
        IN
        /\ (ans # "response") => (status = 200 /\ body = "empty")
        /\ \/ /\ r = "retry"
              /\ cl' = [cl EXCEPT !.retries = @ - 1, !.posts = @ + 1,
                                  !.transient = tr]
              /\ UNCHANGED pc
           \/ /\ r = "response"
              /\ ClNext(Append(cl.results,
                               response_result(cl.ids[cl.i], status, body)),
                        cl.posts + 1, status, tr, FALSE)
           \/ /\ r \notin {"retry", "response"}
              /\ ClNext(handler_appends(cl.results, error_result(cl.ids[cl.i], r)),
                        cl.posts + 1,
                        IF ans = "response" THEN status ELSE None,
                        tr, ans = "connect_error")
    /\ UNCHANGED <<wsVars, call, message_count, loans, last>>
    /\ UNCHANGED otherVars

\* session.close(); return results
ClFinish ==
    /\ pc = "cl_finish"
    /\ Done("returned", "list", 0, cl.results, conns)
    /\ cl' = NoCl
    /\ UNCHANGED wsVars
    /\ UNCHANGED otherVars

\* The streaming client and the REST client share no state that changes (the
\* key material only), so each is checked on its own.
Next ==
    \/ Close \/ cleanup
    \/ CaStart \/ CaConnect \/ CaAuth \/ CaExcept
    \/ RcStart \/ RcConnect \/ RcAuth \/ RcExcept
    \/ GalStart \/ GalRead \/ GalFinish \/ GalExcept

Spec == Init /\ [][Next]_vars

NextRest == ClStart \/ ClGet \/ ClPost \/ ClFinish

SpecRest == Init /\ [][NextRest]_vars

\* ------------------------------------------------------------------ nonces
\* The methods that sign with a nonce: connect_and_authenticate and reconnect
\* through _build_auth_message, close_loans once for each loan id.
SigningOps == {"connect_and_authenticate", "reconnect", "close_loans"}

\* round(x) of a clock reading of t ticks, x = t / TicksPerMs milliseconds:
\* Python rounds to the nearest integer and a half to the even one.
round(t) ==
    LET k == t \div TicksPerMs
        q == t % TicksPerMs
    IN  IF 2 * q < TicksPerMs THEN k
        ELSE IF 2 * q > TicksPerMs THEN k + 1
        ELSE IF k % 2 = 0 THEN k ELSE k + 1

\* int(x) of the same reading: the fraction is cut off.
int(t) == t \div TicksPerMs

\* _build_auth_message: nonce = round(datetime.now().timestamp() * 1_000)
\* (As a nonce kept in a fixed width would be: it wraps around.)
auth_nonce_wrapped(t) == round(t) % 2
auth_nonce(t) == round(t)

\* close_loans: nonce = str(int(time.time() * 1000)), the decimal digits of
\* the integer, which the exchange reads back as that integer.
rest_nonce(t) == int(t)

nonce_of(op, t) == IF op = "close_loans" THEN rest_nonce(t) ELSE auth_nonce(t)

\* The wall clock moves on, or is set (datetime.now() and time.time() read
\* the system clock, which an adjustment may set back).
ClockStep ==
    /\ \E t \in 0..MaxClock : t # now /\ now' = t
    /\ UNCHANGED <<clientVars, nonces, readVars, bookVars>>

\* One nonce is taken from the clock and signed.
Sign ==
    /\ Len(nonces) < MaxSigns
    /\ \E op \in SigningOps :
        nonces' = Append(nonces, [op |-> op, at |-> now, nonce |-> nonce_of(op, now)])
    /\ UNCHANGED <<clientVars, now, readVars, bookVars>>

NextNonce == ClockStep \/ Sign

SpecNonce == Init /\ [][NextNonce]_vars

\* ----------------------------------------------------------------- records
\* A record of a snapshot is the list of its fields, data[0], data[1], ...;
\* a field is <<v>>, the number v, or null (JSON null, Python None).
null == <<>>

\* data[i]: Python counts from 0.
at(d, i) == d[i + 1]

\* A list shorter than an index read from it raises IndexError.
IndexError(d, reads) == \E i \in reads : i >= Len(d)

\* float(x) and int(x) raise TypeError on None.
TypeError(d, converted) == \E i \in converted : at(d, i) = null

\* (As a lookup with no default would be: an unmapped side is an error.)
parse_side_strict(side) ==
    IF side = <<1>> THEN "lender"
    ELSE IF side = <<0>> THEN "both"
    ELSE IF side = <<-1>> THEN "borrower"
    ELSE "error"

\* _parse_side: {1: "lender", 0: "both", -1: "borrower"}.get(side, "unknown")
parse_side(side) ==
    IF side = <<1>> THEN "lender"
    ELSE IF side = <<0>> THEN "both"
    ELSE IF side = <<-1>> THEN "borrower"
    ELSE "unknown"

\* _parse_timestamp: datetime.fromtimestamp(ts/1000).isoformat() if ts else
\* None; the text names the second and the milliseconds within it.
parse_timestamp(ts) ==
    IF ts = null \/ ts = <<0>> THEN null
    ELSE <<ts[1] \div 1000, ts[1] % 1000>>

\* bool(x): None and 0 are False.
bool(x) == x # null /\ x # <<0>>

\* The indices FundingCredit.__init__ reads, and those it converts with
\* float() or int() without a test for None.
credit_reads == {0, 1, 2, 3, 4, 5, 7, 11, 12, 13, 14, 15, 16, 18, 19, 20, 21}
credit_converted == {5, 11, 12}

\* FundingCredit(data) returns (does not raise).
credit_decodes(d) ==
    ~IndexError(d, credit_reads) /\ ~TypeError(d, credit_converted)

\* FundingCredit.__init__
FundingCredit(d) ==
    [id_key |-> "credit_id", id |-> at(d, 0), symbol |-> at(d, 1),
     side |-> parse_side(at(d, 2)),
     created_at |-> parse_timestamp(at(d, 3)),
     updated_at |-> parse_timestamp(at(d, 4)),
     amount |-> at(d, 5)[1],
     status |-> at(d, 7),
     rate |-> at(d, 11)[1],
     period |-> at(d, 12)[1],
     opening_timestamp |-> parse_timestamp(at(d, 13)),
     last_payout |-> parse_timestamp(at(d, 14)),
     renew |-> bool(at(d, 18)),
     rate_real |-> IF at(d, 19) # null THEN at(d, 19)[1] ELSE at(d, 11)[1],
     position_pair |-> at(d, 21)]

\* FundingLoan.__init__ reads data[21] only "if len(data) > 21" and converts
\* data[11], data[12], ... only "if ... is not None".
loan_reads == {0, 1, 2, 3, 4, 5, 7, 11, 12, 13, 14, 15, 16, 18, 19, 20}
loan_converted == {5}

loan_decodes(d) ==
    ~IndexError(d, loan_reads) /\ ~TypeError(d, loan_converted)

\* FundingLoan.__init__
FundingLoan(d) ==
    LET rate == IF at(d, 11) # null THEN at(d, 11)[1] ELSE 0
    IN  [id_key |-> "loan_id", id |-> at(d, 0), symbol |-> at(d, 1),
         side |-> parse_side(at(d, 2)),
         created_at |-> parse_timestamp(at(d, 3)),
         updated_at |-> parse_timestamp(at(d, 4)),
         amount |-> at(d, 5)[1],
         status |-> at(d, 7),
         rate |-> rate,
         period |-> IF at(d, 12) # null THEN at(d, 12)[1] ELSE 0,
         opening_timestamp |-> parse_timestamp(at(d, 13)),
         last_payout |-> parse_timestamp(at(d, 14)),
         renew |-> bool(at(d, 18)),
         rate_real |-> IF at(d, 19) # null THEN at(d, 19)[1] ELSE rate,
         position_pair |-> IF Len(d) > 21 THEN at(d, 21) ELSE null]

\* (As to_dict would be without the conversion.)
exposed_rate_raw(rate) == rate

\* to_dict: "rate": self.rate * 100  # Convert to percentage
exposed_rate(rate) == rate * 100

\* FundingCredit.to_dict
credit_to_dict(o) ==
    [id_key |-> o.id_key, id |-> o.id, symbol |-> o.symbol, side |-> o.side,
     amount |-> o.amount, status |-> o.status, rate |-> exposed_rate(o.rate),
     period_days |-> o.period, created_at |-> o.created_at,
     updated_at |-> o.updated_at, opening_date |-> o.opening_timestamp,
     last_payout |-> o.last_payout, auto_renew |-> o.renew,
     position_pair |-> o.position_pair,
     daily_earnings |-> o.amount * o.rate,
     annual_earnings |-> o.amount * o.rate * 365]

\* FundingLoan.to_dict: the earnings "if self.amount and self.rate else 0"
loan_to_dict(o) ==
    [id_key |-> o.id_key, id |-> o.id, symbol |-> o.symbol, side |-> o.side,
     amount |-> o.amount, status |-> o.status, rate |-> exposed_rate(o.rate),
     period_days |-> o.period, created_at |-> o.created_at,
     updated_at |-> o.updated_at, opening_date |-> o.opening_timestamp,
     last_payout |-> o.last_payout, auto_renew |-> o.renew,
     position_pair |-> o.position_pair,
     daily_earnings |-> IF o.amount # 0 /\ o.rate # 0
                        THEN o.amount * o.rate ELSE 0,
     annual_earnings |-> IF o.amount # 0 /\ o.rate # 0
                         THEN o.amount * o.rate * 365 ELSE 0]

\* ------------------------------------------------- the read loop's frames
\* A record as the exchange sends it, cut to n fields: id, symbol, side and
\* the two timestamps, the amount, status at 7, the rate at 11, the period at
\* 12; opt fills the fields that may be null.
Record(n, id, side, rate, opt) ==
    [i \in 1..n |->
        CASE i = 1 -> <<id>>
          [] i = 2 -> <<1>>
          [] i = 3 -> <<side>>
          [] i \in {4, 5} -> <<1500>>
          [] i = 6 -> <<10>>
          [] i = 12 -> rate
          [] OTHER -> opt]

\* The length of a whole record, and the values of its side field.
record_length == 22
Sides == {-1, 0, 1, 2}

\* The records a frame may carry: whole ones of every side, a second whole
\* borrower's record, a borrower's record cut short (5, 6 and 21 fields), and
\* one whose nullable fields are null.
Records ==
    {Record(record_length, 1, side, <<2>>, <<1>>) : side \in Sides}
    \cup {Record(record_length, 2, -1, <<3>>, <<1>>)}
    \cup {Record(n, 1, -1, <<2>>, <<1>>) : n \in {5, 6, record_length - 1}}
    \cup {Record(record_length, 1, -1, null, null)}

\* json.loads(message): text that is no JSON, an object, or an array of n
\* elements whose second is the tag and whose third is the payload. recs is
\* the payload's records (for a snapshot, those the loop has come to so far).
Frames ==
    {[kind |-> k, n |-> 0, tag |-> "", recs |-> <<>>] : k \in {"text", "object"}}
    \cup {[kind |-> "array", n |-> 1, tag |-> "", recs |-> <<>>]}
    \cup {[kind |-> "array", n |-> 2, tag |-> t, recs |-> <<>>] :
            t \in {"hb", "fcs", "fls", "ws"}}
    \cup {[kind |-> "array", n |-> 3, tag |-> t, recs |-> <<>>] :
            t \in {"fcs", "fls"}}
    \cup {[kind |-> "array", n |-> 3, tag |-> t, recs |-> <<r>>] :
            t \in {"fcn", "fcu", "fln", "flu"}, r \in Records}

\* The frames whose payload the loop goes through record by record:
\* msg_type == "fcs" (or "fls") and len(data) > 2.
is_snapshot(f) ==
    f.kind = "array" /\ f.n > 1 /\ f.tag \in {"fcs", "fls"} /\ f.n > 2

\* funding_credit = FundingCredit(credit), funding_loan = FundingLoan(loan):
\* <<the object>>, or <<>> when the constructor raises.
decode(tag, r) ==
    IF tag = "fcs"
    THEN IF credit_decodes(r) THEN <<FundingCredit(r)>> ELSE <<>>
    ELSE IF loan_decodes(r) THEN <<FundingLoan(r)>> ELSE <<>>

\* (As if the loop had no filter.)
keeps_any(side) == TRUE

\* "# Only include borrower side": if funding_credit.side == "borrower"
keeps(side) == side = "borrower"

\* (As a decoder that fills in what is missing would do: a position with
\* nothing in it.)
dropped_partial(tag, r) ==
    <<[id_key |-> IF tag = "fcs" THEN "credit_id" ELSE "loan_id", id |-> null,
       symbol |-> null, side |-> "unknown", amount |-> 0, status |-> null,
       rate |-> 0, period_days |-> 0, created_at |-> null, updated_at |-> null,
       opening_date |-> null, last_payout |-> null, auto_renew |-> FALSE,
       position_pair |-> null, daily_earnings |-> 0, annual_earnings |-> 0]>>

\* "except Exception as e: logger.error(...)": the record adds nothing.
dropped(tag, r) == <<>>

\* One pass of "for credit in credits_data" (or "for loan in loans_data"):
\* what the record adds to loans.
position_of(tag, r) ==
    IF decode(tag, r) = <<>> THEN dropped(tag, r)
    ELSE IF ~keeps(decode(tag, r)[1].side) THEN <<>>
    ELSE IF tag = "fcs" THEN <<credit_to_dict(decode(tag, r)[1])>>
    ELSE <<loan_to_dict(decode(tag, r)[1])>>

\* get_active_loans(maintain_connection=True) on a client that is Ready
\* enters the read loop at once: loans = [], message_count = 0.
ReadStart ==
    /\ pc = "idle"
    /\ pc' = "read"
    /\ message_count' = 0
    /\ loans_list' = <<>>
    /\ data' = NoFrame
    /\ decoded' = <<>>
    /\ only_hb' = TRUE
    /\ attempts' = 0
    /\ result' = NoResult
    /\ UNCHANGED <<wsVars, call, loans, cl, last, nonceVars, bookVars>>

\* self.ws.recv() raises (and only "connection is closed" ends the loop), or
\* a frame is received, counted and parsed; a frame that is no snapshot with
\* a payload adds nothing, and the loop goes on while it has messages left.
ReadRecv ==
    /\ pc = "read"
    /\ attempts < MaxAttempts
    /\ attempts' = attempts + 1
    /\ \/ /\ \E f \in Frames :
                /\ data' = f
                /\ message_count' = count_after(f.tag, message_count)
                /\ pc' = IF is_snapshot(f) THEN "read_records"
                         ELSE IF loop_exits(Len(loans_list), message_count')
                         THEN "read_end" ELSE "read"
          /\ only_hb' = (only_hb /\ (data = NoFrame \/ data.tag = "hb"))
       \/ /\ \E ev \in {"recv_error", "recv_closed"} :
                /\ message_count' = count_after(ev, message_count)
                /\ pc' = IF ev = "recv_closed" THEN "read_raise" ELSE "read"
          /\ UNCHANGED <<data, only_hb>>
    /\ UNCHANGED <<wsVars, call, loans, cl, last, nonceVars, bookVars, loans_list, decoded,
                   result>>

\* The payload's next record (data.recs grows by the record the loop takes).
ReadRecord ==
    /\ pc = "read_records"
    /\ Len(data.recs) < MaxRecs
    /\ \E r \in Records :
        /\ data' = [data EXCEPT !.recs = Append(@, r)]
        /\ decoded' = decode(data.tag, r)
        /\ loans_list' = loans_list \o position_of(data.tag, r)
    /\ UNCHANGED pc
    /\ UNCHANGED <<wsVars, call, message_count, loans, cl, last, nonceVars, bookVars,
                   only_hb, attempts, result>>

\* The payload has no more records: "if loans: break"
ReadRecords ==
    /\ pc = "read_records"
    /\ pc' = IF loop_exits(Len(loans_list), message_count)
             THEN "read_end" ELSE "read"
    /\ UNCHANGED <<wsVars, call, message_count, loans, cl, last, nonceVars, bookVars,
                   data, loans_list, decoded, only_hb, attempts, result>>

\* "return loans"
ReadEnd ==
    /\ pc = "read_end"
    /\ pc' = "idle"
    /\ result' = [outcome |-> "returned", value |-> loans_list]
    /\ UNCHANGED <<wsVars, call, message_count, loans, cl, last, nonceVars, bookVars,
                   data, loans_list, decoded, only_hb, attempts>>

\* "raise  # Re-raise to trigger reconnection", re-raised by the outer except
ReadRaise ==
    /\ pc = "read_raise"
    /\ pc' = "idle"
    /\ result' = [outcome |-> "raised", value |-> <<>>]
    /\ UNCHANGED <<wsVars, call, message_count, loans, cl, last, nonceVars, bookVars,
                   data, loans_list, decoded, only_hb, attempts>>

NextRead ==
    ReadStart \/ ReadRecv \/ ReadRecord \/ ReadRecords \/ ReadEnd \/ ReadRaise

SpecRead == Init /\ [][NextRead]_vars

\* ------------------------------------------------------ get_funding_book()
\* An entry of the book is [rate, period, count, amount]; the exchange may
\* also send one that is cut short.
BookEntries ==
    {<<rate, 2, 1, amount>> : rate \in {1, 2, 3}, amount \in {-5, 0, 5}}
    \cup {<<1, 2, 1>>}

\* The answer to the GET: a book, an error status (not response.ok), or none
\* (requests.get raises, or the body is no JSON).
Responses ==
    {[kind |-> "ok", book_data |-> b] :
        b \in UNION {[1..n -> BookEntries] : n \in 0..MaxBook}}
    \cup {[kind |-> k, book_data |-> <<>>] : k \in {"not_ok", "failed"}}

\* entry[3] raises IndexError on an entry of fewer than 4 elements.
entry_raises(entry) == Len(entry) < 4

\* (As if the book kept the entries of no amount too.)
is_ask_or_zero(entry) == entry[4] >= 0

\* "# Only include ask side (amount > 0)": if float(entry[3]) > 0
is_ask(entry) == entry[4] > 0

\* formatted_entry
formatted_entry(entry) ==
    [rate |-> entry[1], period |-> entry[2], count |-> entry[3],
     amount |-> entry[4]]

\* The for loop: the asks of the book, formatted, in the book's order.
RECURSIVE formatted(_)
formatted(book_data) ==
    IF book_data = <<>> THEN <<>>
    ELSE (IF is_ask(Head(book_data))
          THEN <<formatted_entry(Head(book_data))>> ELSE <<>>)
         \o formatted(Tail(book_data))

\* e put into a list sorted by rate, behind the entries of the same rate.
RECURSIVE insert_by_rate(_, _)
insert_by_rate(sorted, e) ==
    IF sorted = <<>> THEN <<e>>
    ELSE IF Head(sorted).rate <= e.rate
    THEN <<Head(sorted)>> \o insert_by_rate(Tail(sorted), e)
    ELSE <<e>> \o sorted

\* (As if the list were returned as it was built.)
sort_omitted(list) == list

\* formatted_book.sort(key=lambda x: x['rate']): by rate, ascending, entries
\* of one rate in the order they had (list.sort is stable).
RECURSIVE sort(_)
sort(list) ==
    IF list = <<>> THEN <<>>
    ELSE insert_by_rate(sort(SubSeq(list, 1, Len(list) - 1)), list[Len(list)])

\* get_funding_book(symbol), all of it: [] when the response is not ok, and
\* [] from "except Exception" when anything raises. The method keeps nothing
\* from one call to the next, so a behaviour makes one call.
get_funding_book ==
    /\ book = NoResult
    /\ \E r \in Responses :
        /\ response' = r
        /\ book' = [outcome |-> "returned",
                    value |-> IF r.kind # "ok" THEN <<>>
                              ELSE IF \E i \in 1..Len(r.book_data) :
                                        entry_raises(r.book_data[i])
                              THEN <<>>
                              ELSE sort(formatted(r.book_data))]
    /\ UNCHANGED <<clientVars, nonceVars, readVars>>

NextBook == get_funding_book

SpecBook == Init /\ [][NextBook]_vars

\* ================================================================ claims
\* The results close_loans has appended so far, or has returned, and the note
\* about the last of them.
ResultsSoFar ==
    IF pc \in {"cl_get", "cl_post", "cl_finish"} THEN cl.results
    ELSE IF last.op = "close_loans" THEN last.results ELSE <<>>

NoteSoFar ==
    IF pc \in {"cl_get", "cl_post", "cl_finish"} THEN cl.note
    ELSE IF last.op = "close_loans" THEN last.note ELSE NoNote

\* C1: close_loans returns, for every list of ids and whatever each request
\* meets, exactly one result per id, in the order of the ids; while it runs
\* it has one result for each id already handled, so an id that fails does not
\* stop the ids after it.
C1_OneResultPerId ==
    /\ pc \in {"cl_get", "cl_post", "cl_finish"} =>
        /\ Len(cl.results) = cl.i - 1
        /\ cl.i <= Len(cl.ids) + 1
        /\ \A k \in 1..Len(cl.results) : cl.results[k].loan_id = cl.ids[k]
        /\ (pc = "cl_finish") = (cl.i = Len(cl.ids) + 1)
    /\ last.op = "close_loans" =>
        /\ last.outcome = "returned"
        /\ Len(last.results) = Len(last.ids)
        /\ \A k \in 1..Len(last.ids) : last.results[k].loan_id = last.ids[k]

\* close_loans([5, 6]) has returned: the request for 5 failed without a
\* response and the one for 6 succeeded.
C1_Witness ==
    /\ last.op = "close_loans" /\ last.outcome = "returned"
    /\ last.ids = <<5, 6>>
    /\ ~last.results[1].success /\ last.results[1].status_code = None
    /\ last.results[2].success

\* close_loans([]) has returned [].
C1_WitnessEmpty ==
    last.op = "close_loans" /\ last.ids = <<>> /\ last.results = <<>>

\* C4: a result has success = True exactly when the POST for its id got a
\* response and the last one had status 200; when the host cannot be reached
\* the id gets a failed result with status_code None and close_loans still
\* returns.
C4_SuccessIff200 ==
    /\ \A k \in 1..Len(ResultsSoFar) :
        ResultsSoFar[k].success = (ResultsSoFar[k].status_code = 200)
    /\ NoteSoFar.k > 0 =>
        LET r == ResultsSoFar[NoteSoFar.k] IN
        /\ NoteSoFar.k = Len(ResultsSoFar)
        /\ r.success = (NoteSoFar.post_status = 200)
        /\ NoteSoFar.unreachable => (~r.success /\ r.status_code = None)
    /\ last.op = "close_loans" => last.outcome = "returned"

\* close_loans has returned: the host could not be reached for the last id,
\* and the POST for the one before was answered 200.
C4_Witness ==
    /\ last.op = "close_loans" /\ last.outcome = "returned"
    /\ Len(last.results) = 2
    /\ last.note.unreachable /\ last.note.k = 2
    /\ last.results[1].success /\ last.results[1].status_code = 200

\* C5: when the POST for an id is answered with a status of the forcelist
\* (408, 429, 500, 502, 503, 504) the POST is sent again, at most
\* retry_total + 1 times in all, and the id's result is then a failure.
C5_TransientPostResent ==
    (NoteSoFar.k > 0 /\ NoteSoFar.transient) =>
        /\ NoteSoFar.posts > 1
        /\ NoteSoFar.posts <= retry_total + 1
        /\ ~ResultsSoFar[NoteSoFar.k].success

\* The connections the call that just ended opened.
OpenedByLast == (Len(conns) - last.opened + 1)..Len(conns)

\* C2: when recv() finds the connection closed in the read loop,
\* get_active_loans reconnects once, reads again, and returns (an empty list
\* when that fails too); the caller gets no exception and no error response.
C2_ClosedReadReconnectsOnce ==
    (last.op \in GalOps /\ last.closedInRead) =>
        /\ last.outcome = "returned"
        /\ last.http # 500
        /\ Cardinality({k \in OpenedByLast : conns[k].by = "reconnect"}) = 1

\* C3: get_active_loans turns every connection-level error (connect, send,
\* handshake, connection closed while reading) into an empty list: it returns
\* [] and main.get_loans answers 200.
C3_ConnectionErrorsGiveEmptyList ==
    (last.op \in GalOps /\ last.connErr) =>
        /\ last.outcome = "returned"
        /\ last.loans = 0
        /\ last.http # 500

\* C6: when get_active_loans(maintain_connection=False) has ended, however it
\* ended, the connection held is closed and the client is not Ready; with
\* maintain_connection=True the call does not close the connection.
C6_ClosedUnlessKeepAlive ==
    (last.op \in GalOps /\ last.outcome # "none") =>
        IF last.maintain
        THEN ~last.closes
        ELSE ~Ready /\ (Holds => ~conns[ws].open)

\* C7: after get_active_loans(maintain_connection=True) connected, was
\* answered "OK", read and returned, the client is Ready, and the call that
\* follows at once opens no connection (and so sends no auth message).
C7_KeepAliveReuses ==
    /\ KeptAlive => Ready
    /\ (last.op \in GalOps /\ last.follows) => last.opened = 0

\* The connect was an initial one: the client was not flagged connected when
\* connect_and_authenticate opened the connection, or reconnect opened it.
InitialConnect(c) == c.by = "reconnect" \/ ~c.flagged

\* C8: an auth response with a status other than "OK" makes
\* connect_and_authenticate (on an initial connect) and reconnect raise; the
\* client is never Ready on that connection and the read loop never reads
\* from it.
C8_AuthFailRaises ==
    /\ \A k \in 1..Len(conns) :
        (conns[k].auth = "fail" /\ InitialConnect(conns[k])) =>
            /\ ~conns[k].read
            /\ ~(ws = k /\ is_connected)
    /\ call.authFail => pc \in {"ca_except", "gal_except", "rc_except"}
    /\ last.authFail => last.outcome = "raised"

\* A connection opened by connect_and_authenticate and one opened by
\* reconnect were both answered with a status other than "OK".
C8_Witness ==
    /\ \E k \in 1..Len(conns) :
        conns[k].auth = "fail" /\ conns[k].by = "connect" /\ ~conns[k].flagged
    /\ \E k \in 1..Len(conns) :
        conns[k].auth = "fail" /\ conns[k].by = "reconnect"
    /\ last.authFail /\ last.outcome = "raised"

\* C9: when reconnect has ended, the client is Ready on the connection the
\* call opened, or it is not flagged connected and holds no connection; it
\* never holds the connection it held before.
C9_ReconnectReplaces ==
    (last.op = "reconnect" /\ last.outcome # "none") =>
        /\ \/ Ready /\ ws \in OpenedByLast /\ conns[ws].auth = "ok"
           \/ ~is_connected /\ ws = None
        /\ Holds => ws # last.ws0

\* C10: close() raises nothing, and on a client that holds no connection or
\* a closed one (never connected, closed before, closed just now) it changes
\* neither self.ws, self.is_connected nor the connection.
C10_CloseIdempotent ==
    [][(pc = "idle" /\ pc' = "idle" /\ last'.op = "close") =>
        /\ last'.outcome = "returned"
        /\ Disconnected => (wsVars' = wsVars)]_vars

\* close() has run on a client whose connection a close() before it closed.
C10_Witness ==
    last.op = "close" /\ last.disc0 /\ last.ws0 # None /\ last.outcome = "returned"

\* ---- C11: across the signing operations (authenticate, reconnect, each
\* close request) every nonce is strictly greater than every nonce signed
\* before it.
C11_NoncesStrictlyIncrease ==
    \A i \in 1..Len(nonces) : \A j \in 1..Len(nonces) :
        i < j => nonces[j].nonce > nonces[i].nonce

\* ---- C20: of two streaming-auth nonces, the one built at the later (or the
\* same) clock reading is not the smaller one.
StreamingOps == {"connect_and_authenticate", "reconnect"}

C20_AuthNonceMonotone ==
    \A i \in 1..Len(nonces) : \A j \in 1..Len(nonces) :
        (/\ i < j
         /\ nonces[i].op \in StreamingOps
         /\ nonces[j].op \in StreamingOps
         /\ nonces[j].at >= nonces[i].at)
        => nonces[j].nonce >= nonces[i].nonce

\* Two auth messages built one after the other, the second a moment later
\* in another millisecond.
C20_Witness ==
    /\ Len(nonces) >= 2
    /\ nonces[1].op \in StreamingOps
    /\ nonces[2].op \in StreamingOps
    /\ nonces[2].at > nonces[1].at
    /\ nonces[2].nonce > nonces[1].nonce

\* ---- C12: whenever a caller can look at the client (between two calls,
\* which is where another caller's call starts), the handle and the
\* connected flag agree: the client is fully Ready or fully Disconnected.
C12_NoPartialConnectionState ==
    pc = "idle" => (Ready \/ Disconnected)

\* ---- C13: one read loop receives at most max_messages frames, every
\* received frame (heartbeats and unrecognised ones too) is counted, and a
\* loop that ends with the frames used up and no position returns the empty
\* list, not an error.
GalPcs == {"gal_read", "gal_finish", "gal_except"}

C13_ReadBudget ==
    [][/\ pc' \in GalPcs =>
            (call'.frames <= max_messages /\ call'.frames = message_count')
       /\ (pc = "gal_finish" /\ message_count >= max_messages /\ loans = 0) =>
            (last'.outcome = "returned" /\ last'.value = "list" /\ last'.loans = 0)
      ]_vars

\* The loop has received max_messages frames, none with a position.
C13_Witness ==
    pc = "gal_finish" /\ call.frames = max_messages /\ loans = 0

\* ---- the records of the frame received last, as the claims speak of them
LastOf(seq) == seq[Len(seq)]

\* A record as the exchange sends it: every field is there.
Whole(r) == Len(r) = record_length /\ \A i \in 1..Len(r) : r[i] # null
ValidBorrower(r) == Whole(r) /\ r[3] = <<-1>>
LenderSide(r) == Len(r) >= 3 /\ r[3] = <<1>>
Short(r) == Len(r) < 6

\* Position p is record r's.
PositionOf(p, r) == p.id = r[1] /\ p.side = "borrower" /\ p.amount = r[6][1]

\* The list holds the valid borrower's records of the frame, each once and
\* in their order, and nothing else.
ExactlyTheBorrowers(list) ==
    LET brs == SelectSeq(data.recs, ValidBorrower)
    IN  /\ Len(list) = Len(brs)
        /\ \A k \in 1..Len(brs) : PositionOf(list[k], brs[k])

\* The loop has just taken a record of a snapshot (decoded is what became
\* of it).
TookRecord == pc = "read_records" /\ data.recs # <<>>

\* ---- C14: heartbeats, then a snapshot of valid borrower's records (one at
\* least) and lender's records: the call returns exactly the borrower's
\* records.
C14_Case ==
    /\ result.outcome = "returned"
    /\ only_hb
    /\ is_snapshot(data)
    /\ \A i \in 1..Len(data.recs) :
            ValidBorrower(data.recs[i]) \/ LenderSide(data.recs[i])
    /\ \E i \in 1..Len(data.recs) : ValidBorrower(data.recs[i])

C14_BorrowersOnly == C14_Case => ExactlyTheBorrowers(result.value)

\* A heartbeat, then a snapshot with a lender's record among the borrower's.
C14_Witness ==
    /\ C14_Case
    /\ message_count >= 2
    /\ \E i \in 1..Len(data.recs) : LenderSide(data.recs[i])

\* ---- C15: a record of fewer than 6 fields fails to decode and adds no
\* position, and the valid records of the same snapshot are returned all the
\* same (the borrower's ones: the loop keeps no other side).
C15_Case ==
    /\ result.outcome = "returned"
    /\ is_snapshot(data)
    /\ \A i \in 1..Len(data.recs) : Short(data.recs[i]) \/ Whole(data.recs[i])
    /\ \E i \in 1..Len(data.recs) : Short(data.recs[i])

C15_ShortRecordDropped ==
    /\ (TookRecord /\ Short(LastOf(data.recs))) => decoded = <<>>
    /\ C15_Case => ExactlyTheBorrowers(result.value)

\* A snapshot with a short record and a valid borrower's record, returned.
C15_Witness ==
    /\ C15_Case
    /\ \E i \in 1..Len(data.recs) : ValidBorrower(data.recs[i])

\* ---- C16: a record that has its 6 mandatory fields decodes, as a credit
\* and as a loan, whatever else it lacks.
Mandatory(r) == Len(r) >= 6 /\ \A i \in 1..6 : r[i] # null

C16_MandatoryFieldsSuffice ==
    (TookRecord /\ Mandatory(LastOf(data.recs))) => decoded # <<>>

\* ---- C17: the side of a decoded position is "lender" for 1, "both" for 0,
\* "borrower" for -1 and "unknown" for anything else, and a value that is not
\* mapped does not make the decoding fail.
SideName(v) ==
    CASE v = 1 -> "lender"
      [] v = 0 -> "both"
      [] v = -1 -> "borrower"
      [] OTHER -> "unknown"

C17_SideMapping ==
    TookRecord =>
        /\ decoded # <<>> => decoded[1].side = SideName(LastOf(data.recs)[3][1])
        /\ Whole(LastOf(data.recs)) => decoded # <<>>

\* A whole record whose side is none of 1, 0, -1 was decoded.
C17_Witness ==
    /\ TookRecord
    /\ LastOf(data.recs)[3][1] \notin {1, 0, -1}
    /\ decoded # <<>>
    /\ decoded[1].side = "unknown"

\* ---- C19: the rate of a returned position is the rate of its record, as
\* it came.
C19_Case ==
    /\ TookRecord
    /\ decoded # <<>>
    /\ decoded[1].side = "borrower"
    /\ loans_list # <<>>
    /\ LastOf(data.recs)[12] # null

C19_RateRoundTrips ==
    C19_Case => LastOf(loans_list).rate = LastOf(data.recs)[12][1]

\* C19 as the code has it: the rate of a returned position is 100 times the
\* rate of its record (a percentage), with no annualisation.
C19_RateAsPercentage ==
    C19_Case => LastOf(loans_list).rate = 100 * LastOf(data.recs)[12][1]

\* A borrower's record with a rate was decoded and added.
C19_Witness == C19_Case /\ LastOf(data.recs)[12][1] > 0

\* ---- C18: the list get_funding_book returns for a book holds exactly the
\* entries of the book whose amount is > 0, and is in order of rate, lowest
\* first.
WellFormed(entry) == Len(entry) = 4

C18_Case ==
    /\ book.outcome = "returned"
    /\ response.kind = "ok"
    /\ \A i \in 1..Len(response.book_data) : WellFormed(response.book_data[i])

\* How many times the list holds level lv, and how many times the book
\* holds it with an amount > 0.
TimesReturned(lv) == Cardinality({k \in 1..Len(book.value) : book.value[k] = lv})
TimesAsked(lv) ==
    Cardinality({i \in 1..Len(response.book_data) :
        /\ response.book_data[i][4] > 0
        /\ lv = [rate |-> response.book_data[i][1],
                 period |-> response.book_data[i][2],
                 count |-> response.book_data[i][3],
                 amount |-> response.book_data[i][4]]})

C18_BookFilteredAndSorted ==
    C18_Case =>
        /\ \A k \in 1..Len(book.value) :
                /\ book.value[k].amount > 0
                /\ TimesReturned(book.value[k]) = TimesAsked(book.value[k])
        /\ Len(book.value) =
                Cardinality({i \in 1..Len(response.book_data) :
                                response.book_data[i][4] > 0})
        /\ \A j \in 1..Len(book.value) : \A k \in 1..Len(book.value) :
                j < k => book.value[j].rate <= book.value[k].rate

\* A book with an entry of no positive amount and two asks, the dearer first.
C18_Witness ==
    /\ C18_Case
    /\ \E i \in 1..Len(response.book_data) : response.book_data[i][4] <= 0
    /\ \E i \in 1..Len(response.book_data) : \E j \in 1..Len(response.book_data) :
            /\ i < j
            /\ response.book_data[i][4] > 0
            /\ response.book_data[j][4] > 0
            /\ response.book_data[i][1] > response.book_data[j][1]

\* ---- C21: a recv() that fails without the connection being closed uses
\* up the budget like a frame does: one read loop makes at most max_messages
\* calls of recv().
C21_FailedReceivesUseBudget ==
    attempts <= max_messages /\ (pc = "read" => attempts = message_count)

\* ---- C22: get_active_loans returns as soon as a position has been decoded:
\* once a frame has given a position, the call takes the remaining records
\* of that frame and returns; it calls recv() no more and does not go back
\* to the head of the loop, whatever is left of the budget.
C22_ReturnsOnFirstPosition ==
    [][(pc # "idle" /\ loans_list # <<>>)
          => /\ attempts' = attempts
             /\ message_count' = message_count
             /\ pc' \in {"read_records", "read_end", "idle"}]_vars

C22_Witness ==
    /\ pc = "read_end"
    /\ loans_list # <<>>
    /\ message_count < max_messages

\* A frame carrying one record in place of a list: [chan, "fcn", record].
IsUpdate(f) ==
    f.kind = "array" /\ f.n > 2 /\ f.tag \in {"fcn", "fcu", "fln", "flu"}

\* ---- C24: both shapes of frame give positions: every whole record of a
\* snapshot (fcs, fls) is decoded, and the one record of an update frame
\* (fcn, fcu, fln, flu) is decoded too, so that a valid borrower's record
\* received in an update frame is a position of the list.
C24_BothShapesDecoded ==
    /\ (TookRecord /\ Whole(LastOf(data.recs))) => decoded # <<>>
    /\ (IsUpdate(data) /\ ValidBorrower(data.recs[1]))
          => /\ loans_list # <<>>
             /\ PositionOf(LastOf(loans_list), data.recs[1])

\* ---- C23: a frame received while waiting for the auth response that is
\* JSON and no auth event (an array, an object that is not an auth event) is
\* dropped and the wait goes on: the frame raises nothing, ends the wait
\* neither way and leaves is_connected as it was.
C23_OtherFramesSkipped ==
    [][call'.waited =>
          /\ pc' \in {"ca_auth", "rc_auth"}
          /\ ~call'.connErr
          /\ is_connected' = is_connected]_vars

\* The step is one in which the client closes the connection it holds
\* (the steps of the handshake and of the read loop close nothing: there the
\* connection ends on the peer's side).
ClientCloses ==
    /\ pc \notin {"ca_auth", "rc_auth", "gal_read"}
    /\ Holds
    /\ conns[ws].open
    /\ ~conns'[ws].open

\* ---- C25: between calls the client is flagged connected only while it
\* holds a connection that was answered "OK" and that it has not closed: the
\* flag does not outlive a close of the connection by the client, and the
\* read loop receives frames only from a connection that was answered "OK".
C25_FlagMeansAuthenticated ==
    [][/\ (pc' = "idle" /\ is_connected')
             => (ws' # None /\ conns'[ws'].auth = "ok")
       /\ ClientCloses => ~(is_connected' /\ ws' = ws)
       /\ (pc = "gal_read" /\ message_count' > message_count)
             => conns[ws].auth = "ok"]_vars

\* The connections the client opened that are open still.
OpenConns == {k \in 1..Len(conns) : conns[k].open}

\* ---- C26: the client has one open connection at most: when it opens a
\* connection, those it opened before are closed, whatever the calls of
\* get_active_loans (with maintain_connection or without) and reconnect.
C26_OneOpenConnection == Cardinality(OpenConns) <= 1

====
